---- MODULE Spec2Model ----
(***************************************************************************)
(* The transaction lifecycle and balance ledger of src/server.js: the      *)
(* Express handlers for creating, approving and denying transactions and   *)
(* for the admin balance edit, over the two Mongoose collections User and  *)
(* Transaction.                                                            *)
(*                                                                         *)
(* A handler is a sequence of steps, one per awaited store call; the       *)
(* synchronous code that follows an awaited call belongs to the same step. *)
(* Steps of different requests interleave (Spec) or requests run one after *)
(* the other (SeqSpec).                                                    *)
(*                                                                         *)
(* Balances and amounts are JavaScript Numbers.  A Number is modelled as   *)
(* an integer count of the smallest unit with at most MantBits significant *)
(* bits; sums and differences are rounded to nearest, ties to even, as     *)
(* IEEE-754 does with its 53-bit significand.                              *)
(***************************************************************************)
EXTENDS Integers, Sequences, FiniteSets, TLC

-----------------------------------------------------------------------------
(* Bounds *)

\* significand width of the modelled Number (53 in IEEE-754 double)
MantBits == 3

\* number of Transaction documents the store may hold
MaxTx == 2

\* number of requests the server may be handling at once
MaxReq == 2

-----------------------------------------------------------------------------
(* Numbers *)

\* the value parseFloat returns for text that is no number
NaN == -1000

IsNaN(x) == x = NaN

RECURSIVE Pow2(_)
Pow2(k) == IF k = 0 THEN 1 ELSE 2 * Pow2(k - 1)

RECURSIVE BitLen(_)
BitLen(n) == IF n = 0 THEN 0 ELSE 1 + BitLen(n \div 2)

\* round a non-negative integer to MantBits significant bits, ties to even
RoundNat(n) ==
    IF BitLen(n) <= MantBits THEN n
    ELSE LET q   == Pow2(BitLen(n) - MantBits)
             lo  == (n \div q) * q
             rem == n - lo
         IN  IF 2 * rem < q THEN lo
             ELSE IF 2 * rem > q THEN lo + q
             ELSE IF (n \div q) % 2 = 0 THEN lo ELSE lo + q

Round(x) == IF x < 0 THEN 0 - RoundNat(0 - x) ELSE RoundNat(x)

\* Number + Number and Number - Number
NumAdd(x, y) == Round(x + y)

NumSub(x, y) == Round(x - y)

\* parseFloat on the request-body texts the model sends
ParseFloat(s) ==
    CASE s = "0"  -> 0
      [] s = "-1" -> -1
      [] s = "1"  -> 1
      [] s = "2"  -> 2
      [] s = "10" -> 10
      [] OTHER    -> NaN

-----------------------------------------------------------------------------
(* Request inputs *)

\* users inserted by createInitialData
UserIds == {"admin-demo-123", "user-demo-456"}

\* the request carries no Authorization header
NoToken == "<none>"

\* bearer tokens a request may carry: a user's id, or an id no user has
Tokens == UserIds \cup {NoToken, "no-such-user"}

\* the users that submit transactions and whose balance the admin edits
Customers == {"user-demo-456", "no-such-user"}

Types == {"deposit", "buy", "withdraw"}

\* req.body.amount
RawAmounts == {"abc", "0", "1"}

\* req.body.newBalance
RawBalances == {"abc", "-1", "0", "10"}

\* req.body.walletAddress was not sent
NoAddress == "<undefined>"

RawAddresses == {NoAddress, "", "  ", "addr123456"}

\* mutant: the address is tested as sent, blanks included
TrimNothing(s) == s

\* String.prototype.trim on the addresses the model sends
Trim(s) == IF s = "  " THEN "" ELSE s

\* req.body.transactionId
TxIds == 1 .. MaxTx

\* every request the model sends
AllRequests ==
    [tokens |-> Tokens, customers |-> Customers, types |-> Types,
     amounts |-> RawAmounts, addresses |-> RawAddresses,
     balances |-> RawBalances]

\* the requests that run concurrently: they carry a stored user's token, a
\* valid amount and a valid address
SpecRequests ==
    [tokens |-> UserIds, customers |-> {"user-demo-456"}, types |-> Types,
     amounts |-> {"1"}, addresses |-> {"addr123456"}, balances |-> {"-1", "0"}]

\* the id uuidv4 gives the user that registers
NewUserId == "user-new"

\* req.body.email of a registration: the demo user's address, or the address
\* of the user that registers
Emails == {"user@example.com", "new@example.com"}

\* the requests of a run with registrations: they also come from the user
\* that registers and carry a kind the lifecycle has no branch for
WideRequests ==
    [tokens |-> {"admin-demo-123"}, customers |-> {"user-demo-456", NewUserId},
     types |-> Types \cup {"gift"}, amounts |-> {"1"},
     addresses |-> {"addr123456"}, balances |-> {"0"}, emails |-> Emails]

-----------------------------------------------------------------------------
(* State *)

VARIABLES
    users,   \* the User collection: id -> document
    txns,    \* the Transaction collection, in insertion order; id = position
    req,     \* the requests being handled: slot -> handler state
    pre,     \* history: the two collections when the request in hand arrived
    prev     \* history: the withdrawal the request before this one created

vars == <<users, txns, req, pre, prev>>

Slots == 1 .. MaxReq

\* the local `transaction` before Transaction.findOne resolved
NoTx == [userId |-> "", type |-> "", amount |-> 0, status |-> "",
         approvedAt |-> FALSE, walletAddress |-> NoAddress]

Idle == [pc |-> "idle", op |-> "none", token |-> NoToken, type |-> "",
         value |-> 0, addr |-> NoAddress, txid |-> 0, tx |-> NoTx,
         uid |-> "", balRead |-> 0, bal |-> 0, code |-> 0, email |-> "",
         list |-> <<>>]

Busy(r) == r.pc \notin {"idle", "done"}

\* slot h moves to handler state r
Step(h, r) == req' = [req EXCEPT ![h] = r]

\* the request before this one created no withdrawal
NoPrev == [txid |-> 0, bal0 |-> 0]

\* res.status(code).json(...): the handler returns and its locals are gone
Respond(r, code) ==
    [r EXCEPT !.pc = "done", !.code = code,
              !.tx = NoTx, !.balRead = 0, !.bal = 0]

Init ==
    /\ users = [u \in UserIds |->
                  IF u = "admin-demo-123"
                  THEN [userType |-> "admin", status |-> "approved", balance |-> 12]
                  ELSE [userType |-> "user", status |-> "approved", balance |-> 10]]
    /\ txns = <<>>
    /\ req = [h \in Slots |-> Idle]
    /\ pre = [users |-> users, txns |-> txns]
    /\ prev = NoPrev

-----------------------------------------------------------------------------
(* Middleware *)

\* authenticateToken: a request without a bearer token is answered 401
Authenticated(token) == token # NoToken

\* a request arrives and is given the first free slot
Arrive(h) ==
    /\ req[h].pc = "idle"
    /\ \A g \in Slots : g < h => req[g].pc # "idle"

\* creations accepted so far or still being handled
Creating == Cardinality({h \in Slots : req[h].op = "create" /\ Busy(req[h])})

\* const { userId, newBalance } = req.body and the check of the new balance:
\* the first lines of the update-balance route, run once adminGate calls next()
UpdateBalanceBody(h, r, in) ==
    \E userId \in in.customers, newBalance \in in.balances :
      LET balance == ParseFloat(newBalance) IN
      IF IsNaN(balance) \/ balance < 0
      THEN Step(h, Respond([r EXCEPT !.value = balance], 400))
      ELSE Step(h, [r EXCEPT !.uid = userId, !.value = balance, !.pc = "update"])

\* const { transactionId } = req.body: the first line of the approve and deny
\* routes, run once adminGate calls next()
AdminTxBody(h, r) ==
    \E transactionId \in TxIds :
      Step(h, [r EXCEPT !.txid = transactionId, !.pc = "findTx"])

\* mutant: the gate lets every stored user through
AnyUserPassesGate(token) == token \in DOMAIN users

\* the test of adminGate: user && user.userType === 'admin'
PassesGate(token) == token \in DOMAIN users /\ users[token].userType = "admin"

\* const { userId } = req.body: the first line of the approve-user route,
\* run once adminGate calls next()
ApproveUserBody(h, r, in) ==
    \E userId \in in.customers :
      Step(h, [r EXCEPT !.uid = userId, !.pc = "approveUser"])

\* adminGate: User.findOne({ id: req.userId }); next() enters the route
AdminGate(h, in) ==
    LET r == req[h] IN
    /\ r.pc = "gate"
    /\ UNCHANGED <<users, txns>>
    /\ IF PassesGate(r.token)
       THEN IF r.op = "updateBalance"
            THEN UpdateBalanceBody(h, r, in)
            ELSE IF r.op = "approveUser"
            THEN ApproveUserBody(h, r, in)
            ELSE AdminTxBody(h, r)
       ELSE Step(h, Respond(r, 403))

-----------------------------------------------------------------------------
(* POST /api/user/transaction *)

\* the request arrives; authenticateToken and the amount check run.  A field
\* of the request body is drawn where the handler first reads it.
BeginCreate(h, in) ==
    \E token \in in.customers \cup (in.tokens \cap {NoToken}),
       amount \in in.amounts :
      LET value == ParseFloat(amount)
          r == [Idle EXCEPT !.op = "create", !.token = token]
      IN  /\ Arrive(h)
          /\ Len(txns) + Creating < MaxTx
          /\ UNCHANGED <<users, txns>>
          /\ IF ~Authenticated(token) THEN Step(h, Respond(r, 401))
             ELSE IF IsNaN(value) \/ value <= 0
             THEN Step(h, Respond([r EXCEPT !.value = value], 400))
             ELSE Step(h, [r EXCEPT !.value = value, !.pc = "findUser"])

\* mutant: the owner is taken from a field the request does not carry
PendingOrphan(userId, type, amount, walletAddress) ==
    [userId |-> "", type |-> type, amount |-> amount, status |-> "pending",
     approvedAt |-> FALSE,
     walletAddress |-> IF type = "withdraw" THEN walletAddress ELSE NoAddress]

\* mutant: the address is stored whenever the request carries one
PendingKeepsAddress(userId, type, amount, walletAddress) ==
    [userId |-> userId, type |-> type, amount |-> amount, status |-> "pending",
     approvedAt |-> FALSE, walletAddress |-> walletAddress]

\* transactionData: the document Create stores
Pending(userId, type, amount, walletAddress) ==
    [userId |-> userId, type |-> type, amount |-> amount, status |-> "pending",
     approvedAt |-> FALSE,
     walletAddress |-> IF type = "withdraw" THEN walletAddress ELSE NoAddress]

\* mutant: no debit is ever refused
NeverInsufficient(balance, value) == FALSE

\* mutant: a debit of the whole balance is refused
InsufficientAtEqual(balance, value) == balance <= value

\* the sufficiency check before a debit: user.balance < value
Insufficient(balance, value) == balance < value

\* User.findOne({ id: userId }), then the branch on type up to the next await
CreateFindUser(h, in) ==
    LET r == req[h] IN
    /\ r.pc = "findUser" /\ r.op = "create"
    /\ UNCHANGED <<users, txns>>
    /\ IF r.token \notin DOMAIN users THEN Step(h, Respond(r, 404))
       ELSE \E type \in in.types, walletAddress \in in.addresses :
            LET balance == users[r.token].balance
                u == [r EXCEPT !.uid = r.token, !.type = type,
                               !.balRead = balance, !.bal = balance,
                               !.tx = Pending(r.token, type, r.value, walletAddress)]
            IN  IF type = "withdraw"
                THEN IF walletAddress = NoAddress \/ Trim(walletAddress) = ""
                     THEN Step(h, Respond([u EXCEPT !.addr = walletAddress], 400))
                     ELSE IF Insufficient(balance, r.value)
                     THEN Step(h, Respond([u EXCEPT !.addr = walletAddress], 400))
                     ELSE Step(h, [u EXCEPT !.addr = walletAddress,
                                            !.bal = NumSub(balance, r.value),
                                            !.pc = "saveUser"])
                ELSE Step(h, [u EXCEPT !.pc = "saveTx"])

\* user.save(): Mongoose writes the paths that were modified
SaveUser(h) ==
    LET r == req[h] IN
    /\ r.pc = "saveUser"
    /\ users' = IF r.bal # r.balRead
                THEN [users EXCEPT ![r.uid].balance = r.bal]
                ELSE users
    /\ UNCHANGED txns
    /\ Step(h, [r EXCEPT !.pc = "saveTx"])

\* newTransaction.save(): the document is inserted
CreateSaveTx(h) ==
    LET r == req[h] IN
    /\ r.pc = "saveTx" /\ r.op = "create"
    /\ txns' = Append(txns, r.tx)
    /\ UNCHANGED users
    /\ Step(h, [r EXCEPT !.txid = Len(txns) + 1, !.pc = "refetch"])

\* User.findOne(...).select('-password'), then the 200 response
Refetch(h) ==
    LET r == req[h] IN
    /\ r.pc = "refetch"
    /\ UNCHANGED <<users, txns>>
    /\ Step(h, Respond(r, 200))

-----------------------------------------------------------------------------
(* POST /api/admin/approve-transaction and /api/admin/deny-transaction *)

\* the request arrives; authenticateToken runs
BeginAdminTx(h, in) ==
    \E op \in {"approve", "deny"}, token \in in.tokens :
      LET r == [Idle EXCEPT !.op = op, !.token = token]
      IN  /\ Arrive(h)
          /\ UNCHANGED <<users, txns>>
          /\ IF ~Authenticated(token) THEN Step(h, Respond(r, 401))
             ELSE Step(h, [r EXCEPT !.pc = "gate"])

\* the status guard of the approve route
ApproveRefuses(status) == status = "complete"

\* mutant: the deny route refuses every transaction
DenyRefusesAll(status) == TRUE

\* the status guard of the deny route
DenyRefuses(status) == status # "pending"

\* Transaction.findOne({ id: transactionId }), then the status guard
FindTx(h) ==
    LET r == req[h] IN
    /\ r.pc = "findTx"
    /\ UNCHANGED <<users, txns>>
    /\ IF r.txid \notin DOMAIN txns THEN Step(h, Respond(r, 404))
       ELSE LET transaction == txns[r.txid]
                u == [r EXCEPT !.tx = transaction, !.uid = transaction.userId,
                               !.type = transaction.type,
                               !.value = transaction.amount]
            IN  IF r.op = "approve" /\ ApproveRefuses(transaction.status)
                THEN Step(h, Respond(u, 400))
                ELSE IF r.op = "deny" /\ DenyRefuses(transaction.status)
                THEN Step(h, Respond(u, 400))
                ELSE Step(h, [u EXCEPT !.pc = "findUser"])

\* mutant: the approve route debits a buy without looking at the balance
BuyNeverRefused(type, balance, amount) == FALSE

\* the approve route's refusal of a buy the balance does not cover
BuyRefused(type, balance, amount) == type = "buy" /\ Insufficient(balance, amount)

\* mutant: the approve route debits a withdrawal again
ApprovedBalanceRedebit(type, balance, amount) ==
    CASE type = "deposit" -> NumAdd(balance, amount)
      [] OTHER            -> NumSub(balance, amount)

\* mutant: the approve route takes a deposit for a debit and a buy for a credit
ApprovedBalanceSwapped(type, balance, amount) ==
    CASE type = "deposit" -> NumSub(balance, amount)
      [] type = "buy"     -> NumAdd(balance, amount)
      [] OTHER            -> balance

\* the balance an approval leaves in user.balance
ApprovedBalance(type, balance, amount) ==
    CASE type = "deposit" -> NumAdd(balance, amount)
      [] type = "buy"     -> NumSub(balance, amount)
      [] OTHER            -> balance

\* mutant: the deny route refunds every kind of transaction
DeniedBalanceAlways(type, balance, amount) == NumAdd(balance, amount)

\* the balance a denial leaves in user.balance
DeniedBalance(type, balance, amount) ==
    IF type = "withdraw" THEN NumAdd(balance, amount) ELSE balance

\* User.findOne({ id: transaction.userId }), then the branch on type and the
\* assignments to the local transaction, up to user.save()
AdminFindUser(h) ==
    LET r == req[h] IN
    /\ r.pc = "findUser" /\ r.op \in {"approve", "deny"}
    /\ UNCHANGED <<users, txns>>
    /\ IF r.uid \notin DOMAIN users THEN Step(h, Respond(r, 404))
       ELSE LET balance == users[r.uid].balance
                u == [r EXCEPT !.balRead = balance, !.bal = balance]
            IN  IF r.op = "approve"
                THEN IF BuyRefused(r.tx.type, balance, r.tx.amount)
                     THEN Step(h, Respond(u, 400))
                     ELSE Step(h, [u EXCEPT
                            !.bal = ApprovedBalance(r.tx.type, balance, r.tx.amount),
                            !.tx.status = "complete", !.tx.approvedAt = TRUE,
                            !.pc = "saveUser"])
                ELSE Step(h, [u EXCEPT
                            !.bal = DeniedBalance(r.tx.type, balance, r.tx.amount),
                            !.tx.status = "failed",
                            !.pc = "saveUser"])

\* transaction.save(): Mongoose writes the paths that were modified, status
\* and approvedAt in the approve route, status alone in the deny route
AdminSaveTx(h) ==
    LET r == req[h] IN
    /\ r.pc = "saveTx" /\ r.op \in {"approve", "deny"}
    /\ txns' = IF r.op = "approve"
               THEN [txns EXCEPT ![r.txid].status = r.tx.status,
                                 ![r.txid].approvedAt = r.tx.approvedAt]
               ELSE [txns EXCEPT ![r.txid].status = r.tx.status]
    /\ UNCHANGED users
    /\ IF r.op = "approve" THEN Step(h, Respond(r, 200))
       ELSE Step(h, [r EXCEPT !.pc = "refetch"])

-----------------------------------------------------------------------------
(* A write to the Transaction collection fails *)

\* newTransaction.save() rejects: nothing is inserted, the catch block
\* answers 500
CreateSaveTxFails(h) ==
    LET r == req[h] IN
    /\ r.pc = "saveTx" /\ r.op = "create"
    /\ UNCHANGED <<users, txns>>
    /\ Step(h, Respond(r, 500))

\* transaction.save() rejects in the approve or the deny route: the status
\* is not written, the catch block answers 500
AdminSaveTxFails(h) ==
    LET r == req[h] IN
    /\ r.pc = "saveTx" /\ r.op \in {"approve", "deny"}
    /\ UNCHANGED <<users, txns>>
    /\ Step(h, Respond(r, 500))

-----------------------------------------------------------------------------
(* POST /api/admin/update-balance *)

\* the request arrives; authenticateToken runs
BeginUpdateBalance(h, in) ==
    \E token \in in.tokens :
      LET r == [Idle EXCEPT !.op = "updateBalance", !.token = token]
      IN  /\ Arrive(h)
          /\ UNCHANGED <<users, txns>>
          /\ IF ~Authenticated(token) THEN Step(h, Respond(r, 401))
             ELSE Step(h, [r EXCEPT !.pc = "gate"])

\* User.findOneAndUpdate({ id: userId }, { balance: balance })
UpdateBalance(h) ==
    LET r == req[h] IN
    /\ r.pc = "update"
    /\ UNCHANGED txns
    /\ IF r.uid \notin DOMAIN users
       THEN /\ UNCHANGED users
            /\ Step(h, Respond(r, 404))
       ELSE /\ users' = [users EXCEPT ![r.uid].balance = r.value]
            /\ Step(h, Respond(r, 200))

-----------------------------------------------------------------------------
(* POST /api/register and POST /api/admin/approve-user *)

\* User.findOne({ email }) finds a user
EmailTaken(email) ==
    \/ email = "user@example.com"
    \/ email = "new@example.com" /\ NewUserId \in DOMAIN users

\* the request arrives and looks the email up
BeginRegister(h, in) ==
    \E email \in in.emails :
      /\ Arrive(h)
      /\ UNCHANGED <<users, txns>>
      /\ Step(h, [Idle EXCEPT !.op = "register", !.email = email,
                              !.pc = "findEmail"])

\* User.findOne({ email }) resolves; bcrypt.hash follows
RegisterFindEmail(h) ==
    LET r == req[h] IN
    /\ r.pc = "findEmail"
    /\ UNCHANGED <<users, txns>>
    /\ IF EmailTaken(r.email) THEN Step(h, Respond(r, 400))
       ELSE Step(h, [r EXCEPT !.pc = "saveNewUser"])

\* newUser.save(): the user is inserted with status pending and the schema's
\* defaults; the unique index on email refuses a second insertion
RegisterSave(h) ==
    LET r == req[h] IN
    /\ r.pc = "saveNewUser"
    /\ UNCHANGED txns
    /\ IF EmailTaken(r.email)
       THEN /\ UNCHANGED users
            /\ Step(h, Respond(r, 500))
       ELSE /\ users' = [u \in DOMAIN users \cup {NewUserId} |->
                          IF u = NewUserId
                          THEN [userType |-> "user", status |-> "pending",
                                balance |-> 0]
                          ELSE users[u]]
            /\ Step(h, Respond([r EXCEPT !.uid = NewUserId], 200))

\* the request arrives; authenticateToken runs
BeginApproveUser(h, in) ==
    \E token \in in.tokens :
      LET r == [Idle EXCEPT !.op = "approveUser", !.token = token]
      IN  /\ Arrive(h)
          /\ UNCHANGED <<users, txns>>
          /\ IF ~Authenticated(token) THEN Step(h, Respond(r, 401))
             ELSE Step(h, [r EXCEPT !.pc = "gate"])

\* User.findOneAndUpdate({ id: userId }, { status: 'approved' })
ApproveUser(h) ==
    LET r == req[h] IN
    /\ r.pc = "approveUser"
    /\ UNCHANGED txns
    /\ IF r.uid \notin DOMAIN users
       THEN /\ UNCHANGED users
            /\ Step(h, Respond(r, 404))
       ELSE /\ users' = [users EXCEPT ![r.uid].status = "approved"]
            /\ Step(h, Respond(r, 200))

-----------------------------------------------------------------------------
(* GET /api/user/data *)

\* date: Date.now when `new Transaction` builds the document.  In a run that
\* handles one request after the other the documents are built in the order
\* in which they are inserted, so the date of a transaction is its position.
Date(t) == t

\* Transaction.find({ userId }): the ids of the matching documents
Find(userId) == {t \in DOMAIN txns : txns[t].userId = userId}

\* mutant: the documents are sorted oldest first
RECURSIVE SortByDateAsc(_)
SortByDateAsc(T) ==
    IF T = {} THEN <<>>
    ELSE LET t == CHOOSE x \in T : \A y \in T : Date(x) <= Date(y)
         IN  <<t>> \o SortByDateAsc(T \ {t})

\* .sort({ date: -1 }): the documents by descending date
RECURSIVE SortByDateDesc(_)
SortByDateDesc(T) ==
    IF T = {} THEN <<>>
    ELSE LET t == CHOOSE x \in T : \A y \in T : Date(x) >= Date(y)
         IN  <<t>> \o SortByDateDesc(T \ {t})

\* the request arrives; authenticateToken runs and the user is looked up
BeginUserData(h, in) ==
    \E token \in in.customers \cup in.tokens :
      LET r == [Idle EXCEPT !.op = "userData", !.token = token]
      IN  /\ Arrive(h)
          /\ UNCHANGED <<users, txns>>
          /\ IF ~Authenticated(token) THEN Step(h, Respond(r, 401))
             ELSE Step(h, [r EXCEPT !.pc = "readUser"])

\* User.findOne({ id: req.userId }) resolves: uid is the user found, if any
UserDataFindUser(h) ==
    LET r == req[h] IN
    /\ r.pc = "readUser"
    /\ UNCHANGED <<users, txns>>
    /\ Step(h, [r EXCEPT !.uid = IF r.token \in DOMAIN users THEN r.token ELSE "",
                         !.pc = "readTxns"])

\* Transaction.find({ userId: req.userId }).sort({ date: -1 }) resolves; the
\* response is 404 when no user was found, the sorted list otherwise
UserDataFindTxns(h) ==
    LET r == req[h] IN
    /\ r.pc = "readTxns"
    /\ UNCHANGED <<users, txns>>
    /\ IF r.uid = "" THEN Step(h, Respond(r, 404))
       ELSE Step(h, Respond([r EXCEPT !.list = SortByDateDesc(Find(r.token))], 200))

-----------------------------------------------------------------------------
(* Specifications *)

\* the response has been sent; the slot takes the next request
Release(h) ==
    /\ req[h].pc = "done"
    /\ req' = [req EXCEPT ![h] = Idle]
    /\ UNCHANGED <<users, txns>>

\* requests are handled concurrently: their steps interleave at every await.
\* The history variables are not kept.
Concurrently(h) == UNCHANGED <<pre, prev>>

Next ==
    \E h \in Slots :
      \/ BeginCreate(h, SpecRequests) /\ Concurrently(h)
      \/ CreateFindUser(h, SpecRequests) /\ Concurrently(h)
      \/ SaveUser(h) /\ Concurrently(h)
      \/ CreateSaveTx(h) /\ Concurrently(h)
      \/ Refetch(h) /\ Concurrently(h)
      \/ BeginAdminTx(h, SpecRequests) /\ Concurrently(h)
      \/ AdminGate(h, SpecRequests) /\ Concurrently(h)
      \/ FindTx(h) /\ Concurrently(h)
      \/ AdminFindUser(h) /\ Concurrently(h)
      \/ AdminSaveTx(h) /\ Concurrently(h)
      \/ BeginUpdateBalance(h, SpecRequests) /\ Concurrently(h)
      \/ UpdateBalance(h) /\ Concurrently(h)
      \/ Release(h) /\ Concurrently(h)

Spec == Init /\ [][Next]_vars

\* no request is being handled in a slot other than h
Alone(h) == \A g \in Slots \ {h} : req[g].pc = "idle"

\* the history of a run in which requests are handled one after the other:
\* the collections as the request in hand found them, and the withdrawal
\* the request before it created, with the balance that request found
Track(h) ==
    LET r == req[h] IN
    /\ pre' = IF r.pc \in {"idle", "done"}
              THEN [users |-> users, txns |-> txns]
              ELSE pre
    /\ prev' = IF r.pc # "done" THEN prev
               ELSE IF r.op = "create" /\ r.code = 200 /\ r.type = "withdraw"
               THEN [txid |-> r.txid, bal0 |-> pre.users[r.uid].balance]
               ELSE NoPrev

\* requests are handled one after the other
SeqNext ==
    \E h \in Slots :
      \/ Alone(h) /\ BeginCreate(h, AllRequests) /\ Track(h)
      \/ Alone(h) /\ CreateFindUser(h, AllRequests) /\ Track(h)
      \/ Alone(h) /\ SaveUser(h) /\ Track(h)
      \/ Alone(h) /\ CreateSaveTx(h) /\ Track(h)
      \/ Alone(h) /\ Refetch(h) /\ Track(h)
      \/ Alone(h) /\ BeginAdminTx(h, AllRequests) /\ Track(h)
      \/ Alone(h) /\ AdminGate(h, AllRequests) /\ Track(h)
      \/ Alone(h) /\ FindTx(h) /\ Track(h)
      \/ Alone(h) /\ AdminFindUser(h) /\ Track(h)
      \/ Alone(h) /\ AdminSaveTx(h) /\ Track(h)
      \/ Alone(h) /\ BeginUpdateBalance(h, AllRequests) /\ Track(h)
      \/ Alone(h) /\ UpdateBalance(h) /\ Track(h)
      \/ Alone(h) /\ Release(h) /\ Track(h)

SeqSpec == Init /\ [][SeqNext]_vars

\* requests are handled one after the other; users register and are approved
WideNext ==
    \E h \in Slots :
      \/ Alone(h) /\ BeginCreate(h, WideRequests) /\ Track(h)
      \/ Alone(h) /\ CreateFindUser(h, WideRequests) /\ Track(h)
      \/ Alone(h) /\ SaveUser(h) /\ Track(h)
      \/ Alone(h) /\ CreateSaveTx(h) /\ Track(h)
      \/ Alone(h) /\ Refetch(h) /\ Track(h)
      \/ Alone(h) /\ BeginAdminTx(h, WideRequests) /\ Track(h)
      \/ Alone(h) /\ AdminGate(h, WideRequests) /\ Track(h)
      \/ Alone(h) /\ FindTx(h) /\ Track(h)
      \/ Alone(h) /\ AdminFindUser(h) /\ Track(h)
      \/ Alone(h) /\ AdminSaveTx(h) /\ Track(h)
      \/ Alone(h) /\ BeginUpdateBalance(h, WideRequests) /\ Track(h)
      \/ Alone(h) /\ UpdateBalance(h) /\ Track(h)
      \/ Alone(h) /\ BeginRegister(h, WideRequests) /\ Track(h)
      \/ Alone(h) /\ RegisterFindEmail(h) /\ Track(h)
      \/ Alone(h) /\ RegisterSave(h) /\ Track(h)
      \/ Alone(h) /\ BeginApproveUser(h, WideRequests) /\ Track(h)
      \/ Alone(h) /\ ApproveUser(h) /\ Track(h)
      \/ Alone(h) /\ Release(h) /\ Track(h)

WideSpec == Init /\ [][WideNext]_vars

\* requests are handled one after the other; users register, create
\* transactions and read their data
ReadNext ==
    \E h \in Slots :
      \/ Alone(h) /\ BeginRegister(h, WideRequests) /\ Track(h)
      \/ Alone(h) /\ RegisterFindEmail(h) /\ Track(h)
      \/ Alone(h) /\ RegisterSave(h) /\ Track(h)
      \/ Alone(h) /\ BeginCreate(h, WideRequests) /\ Track(h)
      \/ Alone(h) /\ CreateFindUser(h, WideRequests) /\ Track(h)
      \/ Alone(h) /\ SaveUser(h) /\ Track(h)
      \/ Alone(h) /\ CreateSaveTx(h) /\ Track(h)
      \/ Alone(h) /\ Refetch(h) /\ Track(h)
      \/ Alone(h) /\ BeginUserData(h, WideRequests) /\ Track(h)
      \/ Alone(h) /\ UserDataFindUser(h) /\ Track(h)
      \/ Alone(h) /\ UserDataFindTxns(h) /\ Track(h)
      \/ Alone(h) /\ Release(h) /\ Track(h)

ReadSpec == Init /\ [][ReadNext]_vars

\* the store a ledger run starts from: no transaction yet, and the demo user
\* with a small balance, as an admin's update-balance sets it
LedgerInit ==
    /\ \E balance \in 0 .. 2 :
         users = [u \in UserIds |->
                    IF u = "admin-demo-123"
                    THEN [userType |-> "admin", status |-> "approved", balance |-> 12]
                    ELSE [userType |-> "user", status |-> "approved",
                          balance |-> balance]]
    /\ txns = <<>>
    /\ req = [h \in Slots |-> Idle]
    /\ pre = [users |-> users, txns |-> txns]
    /\ prev = NoPrev

\* the requests of a ledger run: the demo user's Creates and the admin's
\* Approves and Denies
LedgerRequests ==
    [tokens |-> {"admin-demo-123"}, customers |-> {"user-demo-456"},
     types |-> Types, amounts |-> {"1"}, addresses |-> {"addr123456"},
     balances |-> {}]

\* pre stays the store the run started from
FromStart(h) == UNCHANGED <<pre, prev>>

\* Create, Approve and Deny requests are handled one after the other; there
\* is no update-balance
LedgerNext ==
    \E h \in Slots :
      \/ Alone(h) /\ BeginCreate(h, LedgerRequests) /\ FromStart(h)
      \/ Alone(h) /\ CreateFindUser(h, LedgerRequests) /\ FromStart(h)
      \/ Alone(h) /\ SaveUser(h) /\ FromStart(h)
      \/ Alone(h) /\ CreateSaveTx(h) /\ FromStart(h)
      \/ Alone(h) /\ Refetch(h) /\ FromStart(h)
      \/ Alone(h) /\ BeginAdminTx(h, LedgerRequests) /\ FromStart(h)
      \/ Alone(h) /\ AdminGate(h, LedgerRequests) /\ FromStart(h)
      \/ Alone(h) /\ FindTx(h) /\ FromStart(h)
      \/ Alone(h) /\ AdminFindUser(h) /\ FromStart(h)
      \/ Alone(h) /\ AdminSaveTx(h) /\ FromStart(h)
      \/ Alone(h) /\ Release(h) /\ FromStart(h)

LedgerSpec == LedgerInit /\ [][LedgerNext]_vars

\* Create, Approve and Deny requests are handled one after the other, and a
\* write to the Transaction collection may fail
FaultNext ==
    \E h \in Slots :
      \/ Alone(h) /\ BeginCreate(h, LedgerRequests) /\ Track(h)
      \/ Alone(h) /\ CreateFindUser(h, LedgerRequests) /\ Track(h)
      \/ Alone(h) /\ SaveUser(h) /\ Track(h)
      \/ Alone(h) /\ CreateSaveTx(h) /\ Track(h)
      \/ Alone(h) /\ CreateSaveTxFails(h) /\ Track(h)
      \/ Alone(h) /\ Refetch(h) /\ Track(h)
      \/ Alone(h) /\ BeginAdminTx(h, LedgerRequests) /\ Track(h)
      \/ Alone(h) /\ AdminGate(h, LedgerRequests) /\ Track(h)
      \/ Alone(h) /\ FindTx(h) /\ Track(h)
      \/ Alone(h) /\ AdminFindUser(h) /\ Track(h)
      \/ Alone(h) /\ AdminSaveTx(h) /\ Track(h)
      \/ Alone(h) /\ AdminSaveTxFails(h) /\ Track(h)
      \/ Alone(h) /\ Release(h) /\ Track(h)

FaultSpec == LedgerInit /\ [][FaultNext]_vars

\* Create, Approve and Deny requests are handled one after the other, with
\* the history of each request
LiveNext ==
    \E h \in Slots :
      \/ Alone(h) /\ BeginCreate(h, LedgerRequests) /\ Track(h)
      \/ Alone(h) /\ CreateFindUser(h, LedgerRequests) /\ Track(h)
      \/ Alone(h) /\ SaveUser(h) /\ Track(h)
      \/ Alone(h) /\ CreateSaveTx(h) /\ Track(h)
      \/ Alone(h) /\ Refetch(h) /\ Track(h)
      \/ Alone(h) /\ BeginAdminTx(h, LedgerRequests) /\ Track(h)
      \/ Alone(h) /\ AdminGate(h, LedgerRequests) /\ Track(h)
      \/ Alone(h) /\ FindTx(h) /\ Track(h)
      \/ Alone(h) /\ AdminFindUser(h) /\ Track(h)
      \/ Alone(h) /\ AdminSaveTx(h) /\ Track(h)
      \/ Alone(h) /\ Release(h) /\ Track(h)

\* an admin's Deny request arrives
DenyArrives ==
    \E h \in Slots :
      /\ Alone(h) /\ BeginAdminTx(h, LedgerRequests) /\ Track(h)
      /\ req'[h].op = "deny"

\* the Deny request in hand names transaction t
DenyNames(t) ==
    \E h \in Slots :
      /\ req[h].op = "deny"
      /\ Alone(h) /\ AdminGate(h, LedgerRequests) /\ Track(h)
      /\ req'[h].txid = t

\* the event loop runs every handler to its response, and the admin keeps
\* sending a Deny for every transaction.  Requests are handled one at a
\* time here, so a Deny can arrive only between two requests: the admin's
\* fairness is strong fairness of the arrival and of the transaction named.
LiveSpec ==
    /\ LedgerInit /\ [][LiveNext]_vars
    /\ WF_vars(LiveNext)
    /\ SF_vars(DenyArrives)
    /\ \A t \in TxIds : SF_vars(DenyNames(t))

\* the stores two racing requests may find: the demo user with a small
\* balance, as an admin's update-balance sets it, and pending transactions
\* of that user, as Create stores them
RaceTxns ==
    {Pending("user-demo-456", type, amount, "addr123456") :
        type \in Types, amount \in {1, 2}}

RaceInit ==
    /\ \E balance \in 0 .. 2 :
         users = [u \in UserIds |->
                    IF u = "admin-demo-123"
                    THEN [userType |-> "admin", status |-> "approved", balance |-> 12]
                    ELSE [userType |-> "user", status |-> "approved",
                          balance |-> balance]]
    /\ \E n \in 0 .. MaxTx : txns \in [1 .. n -> RaceTxns]
    /\ req = [h \in Slots |-> Idle]
    /\ pre = [users |-> users, txns |-> txns]
    /\ prev = NoPrev

RaceRequests == [SpecRequests EXCEPT !.amounts = {"1", "2"}]

\* MaxReq requests, each in a slot of its own, race from a store of RaceInit;
\* pre stays the store they started from
RaceNext ==
    \E h \in Slots :
      \/ BeginCreate(h, RaceRequests) /\ Concurrently(h)
      \/ CreateFindUser(h, RaceRequests) /\ Concurrently(h)
      \/ SaveUser(h) /\ Concurrently(h)
      \/ CreateSaveTx(h) /\ Concurrently(h)
      \/ Refetch(h) /\ Concurrently(h)
      \/ BeginAdminTx(h, RaceRequests) /\ Concurrently(h)
      \/ AdminGate(h, RaceRequests) /\ Concurrently(h)
      \/ FindTx(h) /\ Concurrently(h)
      \/ AdminFindUser(h) /\ Concurrently(h)
      \/ AdminSaveTx(h) /\ Concurrently(h)
      \/ BeginUpdateBalance(h, RaceRequests) /\ Concurrently(h)
      \/ UpdateBalance(h) /\ Concurrently(h)

RaceSpec == RaceInit /\ [][RaceNext]_vars

-----------------------------------------------------------------------------
(* Vocabulary of the properties *)

Terminal == {"complete", "failed"}

IsAdmin(token) == token \in DOMAIN users /\ users[token].userType = "admin"

\* slot h holds a request that has been answered
Answered(h, op) == req[h].pc = "done" /\ req[h].op = op

\* slot h holds an answered Approve or Deny, sent by an admin, of a
\* transaction that was stored when the request arrived
AnsweredAdminTx(h, op) ==
    /\ Answered(h, op)
    /\ IsAdmin(req[h].token)
    /\ req[h].txid \in DOMAIN pre.txns

\* slot h holds an answered Create of the given kinds, sent by a stored user
\* with a valid amount and, for a withdrawal, an address
AnsweredCreate(h, types) ==
    /\ Answered(h, "create")
    /\ req[h].token \in DOMAIN users
    /\ req[h].type \in types
    /\ req[h].value > 0
    /\ req[h].type = "withdraw" =>
          req[h].addr # NoAddress /\ Trim(req[h].addr) # ""

\* the collections are as the request found them
StoreUntouched == users = pre.users /\ txns = pre.txns

\* the request stored one transaction, tx, and touched no other
Stored(tx) ==
    /\ Len(txns) = Len(pre.txns) + 1
    /\ txns[Len(txns)] = tx
    /\ SubSeq(txns, 1, Len(pre.txns)) = pre.txns

\* the request wrote to transaction t the given status and stamp, and to no
\* other field and no other transaction
Marked(t, status, approvedAt) ==
    txns = [pre.txns EXCEPT ![t].status = status, ![t].approvedAt = approvedAt]

\* the request wrote the given balance to user u, and nothing else to any user
Balance(u, balance) == users = [pre.users EXCEPT ![u].balance = balance]

-----------------------------------------------------------------------------
(* C1 *)

\* C1: an Approve or Deny of a transaction whose status is already complete
\* or failed is rejected and changes neither collection.
C1_TerminalIsFinal ==
    \A h \in Slots :
      /\ AnsweredAdminTx(h, "approve") \/ AnsweredAdminTx(h, "deny")
      /\ pre.txns[req[h].txid].status \in Terminal
      => req[h].code = 400 /\ StoreUntouched

-----------------------------------------------------------------------------
(* C2 *)

\* C2: no stored balance is ever negative, however the steps of concurrent
\* Create, Approve, Deny and update-balance requests interleave.
C2_BalanceNonNegative ==
    \A u \in DOMAIN users : users[u].balance >= 0

\* a Create(withdraw) has written its debit and the balance is 0, while an
\* Approve or Deny that read the same user's balance is still being handled
C2_Witness ==
    \E h, g \in Slots :
      /\ req[h].op = "create" /\ req[h].type = "withdraw"
      /\ req[h].pc = "saveTx"
      /\ users[req[h].uid].balance = 0
      /\ req[g].op \in {"approve", "deny"}
      /\ req[g].pc \in {"saveUser", "saveTx"}
      /\ req[g].uid = req[h].uid

-----------------------------------------------------------------------------
(* C3 *)

\* C3: when a Create(withdraw) that was accepted is followed directly by a
\* successful Deny of the transaction it stored, the user's balance is again
\* the balance the Create found, and the transaction is failed.
C3_DenyRestoresBalance ==
    \A h \in Slots :
      /\ AnsweredAdminTx(h, "deny")
      /\ req[h].code = 200
      /\ prev.txid = req[h].txid
      => /\ users[req[h].uid].balance = prev.bal0
         /\ txns[req[h].txid].status = "failed"

-----------------------------------------------------------------------------
(* C4 *)

\* C4: an admin's Approve of a pending withdrawal succeeds, leaves every
\* balance as it found it and marks the transaction complete; when the
\* Approve directly follows the Create, the balance is the one the Create
\* found less the amount, debited once.
C4_ApproveWithdrawalKeepsBalance ==
    \A h \in Slots :
      LET t == req[h].txid IN
      /\ AnsweredAdminTx(h, "approve")
      /\ pre.txns[t].type = "withdraw"
      /\ pre.txns[t].status = "pending"
      => /\ req[h].code = 200
         /\ users = pre.users
         /\ Marked(t, "complete", TRUE)
         /\ prev.txid = t =>
              users[pre.txns[t].userId].balance
                 = NumSub(prev.bal0, pre.txns[t].amount)

\* an Approve of the pending withdrawal that the request before it created,
\* for less than the balance, has been answered
C4_Witness ==
    \E h \in Slots :
      /\ AnsweredAdminTx(h, "approve")
      /\ pre.txns[req[h].txid].type = "withdraw"
      /\ pre.txns[req[h].txid].status = "pending"
      /\ prev.txid = req[h].txid
      /\ users[req[h].uid].balance > 0
      /\ txns[req[h].txid].status = "complete"

-----------------------------------------------------------------------------
(* C5 *)

-----------------------------------------------------------------------------
(* C6 *)

\* C6: an admin's Approve of a pending buy whose amount exceeds the user's
\* balance is rejected; the balance, the status (pending) and the approval
\* stamp (unset) stay as they were.
C6_ApproveBuyInsufficient ==
    \A h \in Slots :
      LET t == req[h].txid IN
      /\ AnsweredAdminTx(h, "approve")
      /\ pre.txns[t].type = "buy"
      /\ pre.txns[t].status = "pending"
      /\ pre.users[pre.txns[t].userId].balance < pre.txns[t].amount
      => /\ req[h].code = 400
         /\ StoreUntouched
         /\ txns[t].status = "pending"
         /\ txns[t].approvedAt = FALSE

\* an Approve of a pending buy for more than the balance has been answered
C6_Witness ==
    \E h \in Slots :
      /\ AnsweredAdminTx(h, "approve")
      /\ pre.txns[req[h].txid].type = "buy"
      /\ pre.txns[req[h].txid].status = "pending"
      /\ pre.users[req[h].uid].balance < pre.txns[req[h].txid].amount
      /\ req[h].code = 400

-----------------------------------------------------------------------------
(* C7 *)

-----------------------------------------------------------------------------
(* C8 *)

\* C8: a Create(deposit) or Create(buy) of a stored user succeeds, whatever
\* the balance, stores one pending transaction and changes no balance; an
\* admin's Deny of a pending deposit or buy succeeds, marks it failed and
\* changes no balance.
C8_DepositBuyOnlyAtApproval ==
    \A h \in Slots :
      LET r == req[h] IN
      /\ AnsweredCreate(h, {"deposit", "buy"}) =>
            /\ r.code = 200
            /\ users = pre.users
            /\ Stored([userId |-> r.token, type |-> r.type, amount |-> r.value,
                       status |-> "pending", approvedAt |-> FALSE,
                       walletAddress |-> NoAddress])
      /\ /\ AnsweredAdminTx(h, "deny")
         /\ pre.txns[r.txid].type \in {"deposit", "buy"}
         /\ pre.txns[r.txid].status = "pending"
         => /\ r.code = 200
            /\ users = pre.users
            /\ Marked(r.txid, "failed", FALSE)

\* a Deny of a pending buy for more than the balance has been answered
C8_Witness ==
    \E h \in Slots :
      /\ AnsweredAdminTx(h, "deny")
      /\ pre.txns[req[h].txid].type = "buy"
      /\ pre.txns[req[h].txid].status = "pending"
      /\ pre.users[req[h].uid].balance < pre.txns[req[h].txid].amount
      /\ txns[req[h].txid].status = "failed"

-----------------------------------------------------------------------------
(* C9 *)

\* the amounts of the withdrawals that the requests in slots 1 .. n created
RECURSIVE Withdrawn(_)
Withdrawn(n) ==
    IF n = 0 THEN 0
    ELSE Withdrawn(n - 1)
           + IF /\ Answered(n, "create") /\ req[n].type = "withdraw"
                /\ req[n].code = 200
             THEN req[n].value ELSE 0

\* C9: when the racing requests are all Create requests of one user, so that
\* nothing credits the balance b they start from, the amounts of the
\* withdrawals accepted among them sum to at most b.
C9_WithdrawalsWithinBalance ==
    (\A h \in Slots : req[h].pc # "idle" =>
        req[h].op = "create" /\ req[h].token = "user-demo-456")
    => Withdrawn(MaxReq) <= pre.users["user-demo-456"].balance

-----------------------------------------------------------------------------
(* C10 *)

\* C10: when two Approve requests of the same pending deposit have both been
\* answered, not both report success, and the balance is the Number b + a
\* for the balance b they started from and the amount a.
C10_ApproveAppliesOnce ==
    \A h, g \in Slots :
      LET t == req[h].txid
          tx == pre.txns[t]
      IN  /\ h # g
          /\ AnsweredAdminTx(h, "approve")
          /\ AnsweredAdminTx(g, "approve")
          /\ req[g].txid = t
          /\ tx.type = "deposit"
          /\ \A f \in Slots \ {h, g} : req[f].pc = "idle"
          => /\ ~(req[h].code = 200 /\ req[g].code = 200)
             /\ users[tx.userId].balance
                  = NumAdd(pre.users[tx.userId].balance, tx.amount)

-----------------------------------------------------------------------------
(* C11 *)

\* C11: when an Approve and a Deny of the same pending transaction have both
\* been answered, the transaction and its owner's balance are as the Approve
\* alone leaves them (complete, stamped, a deposit credited, a buy debited)
\* or as the Deny alone leaves them (failed, unstamped, a withdrawal
\* refunded); so no withdrawal is complete with its amount refunded.
C11_ApproveXorDeny ==
    \A h, g \in Slots :
      LET t == req[h].txid
          tx == pre.txns[t]
          b == pre.users[tx.userId].balance
          approved == CASE tx.type = "deposit" -> NumAdd(b, tx.amount)
                        [] tx.type = "buy"     -> NumSub(b, tx.amount)
                        [] OTHER               -> b
          denied == IF tx.type = "withdraw" THEN NumAdd(b, tx.amount) ELSE b
      IN  /\ AnsweredAdminTx(h, "approve")
          /\ AnsweredAdminTx(g, "deny")
          /\ req[g].txid = t
          /\ tx.status = "pending"
          /\ \A f \in Slots \ {h, g} : req[f].pc = "idle"
          => \/ /\ txns[t].status = "complete" /\ txns[t].approvedAt
                /\ users[tx.userId].balance = approved
             \/ /\ txns[t].status = "failed" /\ ~txns[t].approvedAt
                /\ users[tx.userId].balance = denied

-----------------------------------------------------------------------------
(* C12 *)

\* slot h holds an answered request of the demo user's ledger: an admin's
\* Approve or Deny of a transaction pending when the race began, or the
\* user's own Create
LedgerRequest(h) ==
    \/ /\ AnsweredAdminTx(h, "approve") \/ AnsweredAdminTx(h, "deny")
       /\ pre.txns[req[h].txid].status = "pending"
    \/ Answered(h, "create") /\ req[h].token \in DOMAIN users
                             /\ req[h].type \in Types

\* the balance the request of slot h, handled alone, makes of balance b
Alone12(h, b) ==
    LET r == req[h]
        type == IF r.op = "create" THEN r.type ELSE pre.txns[r.txid].type
        a == IF r.op = "create" THEN r.value ELSE pre.txns[r.txid].amount
    IN  CASE r.op = "approve" /\ type = "deposit"          -> NumAdd(b, a)
          [] r.op = "approve" /\ type = "buy" /\ b >= a     -> NumSub(b, a)
          [] r.op = "deny" /\ type = "withdraw"            -> NumAdd(b, a)
          [] r.op = "create" /\ type = "withdraw" /\ b >= a -> NumSub(b, a)
          [] OTHER                                         -> b

\* C12: when two requests that touch the balance of one user through
\* different transactions have both been answered, the balance is the one
\* that handling them one after the other, in one of the two orders, gives.
C12_BalanceSerialized ==
    \A h, g \in Slots :
      LET b == pre.users["user-demo-456"].balance IN
      /\ h # g
      /\ LedgerRequest(h) /\ LedgerRequest(g)
      /\ req[h].op # "create" /\ req[g].op # "create" => req[h].txid # req[g].txid
      /\ \A f \in Slots \ {h, g} : req[f].pc = "idle"
      => users["user-demo-456"].balance
           \in {Alone12(g, Alone12(h, b)), Alone12(h, Alone12(g, b))}

-----------------------------------------------------------------------------
(* C13 *)

\* C13: a Create whose amount is no number or is <= 0 is answered 400 without
\* a store access (it never waits on the store, whoever sent it), and a
\* Create(withdraw) whose address is missing, empty or blank is answered 400
\* before the debit; both leave the two collections as they were.
C13_CreateValidation ==
    \A h \in Slots :
      LET r == req[h] IN
      /\ /\ r.op = "create" /\ Authenticated(r.token)
         /\ IsNaN(r.value) \/ r.value <= 0
         => r.pc = "done" /\ r.code = 400 /\ StoreUntouched
      /\ /\ r.op = "create" /\ r.type = "withdraw"
         /\ r.addr \in {NoAddress, "", "  "}
         => r.pc = "done" /\ r.code = 400 /\ StoreUntouched

\* a Create(withdraw) with a blank address, for an amount the balance covers,
\* has been answered
C13_Witness ==
    \E h \in Slots :
      /\ Answered(h, "create") /\ req[h].type = "withdraw"
      /\ req[h].addr = "  "
      /\ pre.users[req[h].token].balance >= req[h].value
      /\ req[h].code = 400

-----------------------------------------------------------------------------
(* C14 *)

\* C14: a Create sent under the identifier of a stored user whose status is
\* pending is rejected and leaves the two collections as they were.
C14_CreateNeedsApprovedUser ==
    \A h \in Slots :
      LET r == req[h] IN
      /\ Answered(h, "create")
      /\ r.token \in DOMAIN pre.users
      /\ pre.users[r.token].status = "pending"
      => r.code # 200 /\ StoreUntouched

-----------------------------------------------------------------------------
(* C15 *)

\* C15: every stored transaction has kind deposit, buy or withdraw and status
\* pending, complete or failed, and a Create whose kind is another value is
\* rejected and stores nothing.
C15_KindAndStatus ==
    /\ \A t \in DOMAIN txns :
         /\ txns[t].type \in {"deposit", "buy", "withdraw"}
         /\ txns[t].status \in {"pending", "complete", "failed"}
    /\ \A h \in Slots :
         /\ Answered(h, "create")
         /\ req[h].type \notin {"", "deposit", "buy", "withdraw"}
         => req[h].code # 200 /\ txns = pre.txns

-----------------------------------------------------------------------------
(* C16 *)

\* C16: a request that has changed a balance is a lifecycle step: a
\* Create(withdraw), an Approve of a deposit or of a buy, or a Deny of a
\* withdrawal.
C16_BalanceOnlyInLifecycle ==
    \A h \in Slots :
      LET r == req[h] IN
      /\ r.pc = "done"
      /\ \E u \in DOMAIN pre.users : users[u].balance # pre.users[u].balance
      => \/ r.op = "create" /\ r.type = "withdraw"
         \/ r.op = "approve" /\ pre.txns[r.txid].type \in {"deposit", "buy"}
         \/ r.op = "deny" /\ pre.txns[r.txid].type = "withdraw"

-----------------------------------------------------------------------------
(* C17 *)

\* C17: the owner of every stored transaction is a stored user, and a Create
\* sent under an identifier no user has is rejected (404, or 400 when the
\* amount is invalid) and leaves the two collections as they were.
C17_OwnerExists ==
    /\ \A t \in DOMAIN txns : txns[t].userId \in DOMAIN users
    /\ \A h \in Slots :
         LET r == req[h] IN
         /\ Answered(h, "create")
         /\ Authenticated(r.token) /\ r.token \notin DOMAIN users
         => /\ r.code = IF IsNaN(r.value) \/ r.value <= 0 THEN 400 ELSE 404
            /\ StoreUntouched

\* a Create with a valid amount under an unknown identifier has been
\* answered, while a transaction of a stored user is in the store
C17_Witness ==
    \E h \in Slots :
      /\ Answered(h, "create")
      /\ req[h].token = "no-such-user"
      /\ req[h].value > 0
      /\ req[h].code = 404
      /\ Len(txns) >= 1

-----------------------------------------------------------------------------
(* C18 *)

\* C18: a stored transaction carries an address exactly when it is a
\* withdrawal, and an answered Approve or Deny, successful or rejected,
\* leaves the amount, kind, owner and address of every transaction as the
\* request found them.
C18_FieldsImmutable ==
    /\ \A t \in DOMAIN txns :
         txns[t].walletAddress # NoAddress <=> txns[t].type = "withdraw"
    /\ \A h \in Slots :
         Answered(h, "approve") \/ Answered(h, "deny") =>
           /\ DOMAIN txns = DOMAIN pre.txns
           /\ \A t \in DOMAIN txns :
                /\ txns[t].amount = pre.txns[t].amount
                /\ txns[t].type = pre.txns[t].type
                /\ txns[t].userId = pre.txns[t].userId
                /\ txns[t].walletAddress = pre.txns[t].walletAddress

\* a successful Deny of a withdrawal has been answered while a deposit is
\* stored beside it
C18_Witness ==
    \E h \in Slots :
      /\ AnsweredAdminTx(h, "deny") /\ req[h].code = 200
      /\ txns[req[h].txid].type = "withdraw"
      /\ txns[req[h].txid].walletAddress = "addr123456"
      /\ txns[req[h].txid].status = "failed"
      /\ \E t \in DOMAIN txns : txns[t].type = "deposit"

-----------------------------------------------------------------------------
(* C19 *)

\* C19: in every reachable state a stored transaction has an approval stamp
\* exactly when its status is complete.
C19_StampIffComplete ==
    \A t \in DOMAIN txns : txns[t].approvedAt <=> txns[t].status = "complete"

-----------------------------------------------------------------------------
(* C20 *)

\* C20: an Approve or Deny sent without a token, under an unknown identifier
\* or by a user who is not an admin never gets past the gate: it does not
\* read the request's transaction, it is answered 401 (no token) or 403, and
\* it leaves the two collections as they were.
C20_AdminOnly ==
    \A h \in Slots :
      LET r == req[h] IN
      /\ r.op \in {"approve", "deny"}
      /\ ~IsAdmin(r.token)
      => /\ r.pc \in {"gate", "done"}
         /\ r.txid = 0
         /\ r.pc = "done" =>
              /\ r.code = IF r.token = NoToken THEN 401 ELSE 403
              /\ StoreUntouched

\* a Deny sent by the owner of a pending withdrawal has been answered
C20_Witness ==
    \E h \in Slots :
      /\ Answered(h, "deny")
      /\ req[h].token = "user-demo-456"
      /\ req[h].code = 403
      /\ \E t \in DOMAIN txns :
           /\ txns[t].userId = req[h].token
           /\ txns[t].type = "withdraw" /\ txns[t].status = "pending"

-----------------------------------------------------------------------------
(* C21 *)

\* C21: a successful read of a user's data lists each stored transaction of
\* that user once and no other transaction, a later creation before an
\* earlier one, and leaves the two collections as they were.
C21_UserTransactions ==
    \A h \in Slots :
      LET r == req[h] IN
      Answered(h, "userData") /\ r.code = 200 =>
        /\ {r.list[i] : i \in DOMAIN r.list}
             = {t \in DOMAIN txns : txns[t].userId = r.token}
        /\ \A i, j \in DOMAIN r.list : i < j => r.list[i] > r.list[j]
        /\ StoreUntouched

\* the user that registered has read its two transactions, the one created
\* last first
C21_Witness ==
    \E h \in Slots :
      /\ Answered(h, "userData") /\ req[h].code = 200
      /\ req[h].token = NewUserId
      /\ req[h].list = <<2, 1>>

-----------------------------------------------------------------------------
(* C22 *)

\* what the first n stored transactions contribute to user u's ledger: a
\* complete deposit its amount, a complete buy and a pending or complete
\* withdrawal the negated amount, anything else nothing
RECURSIVE Ledger(_, _)
Ledger(u, n) ==
    IF n = 0 THEN 0
    ELSE LET t == txns[n]
             own == IF t.userId # u THEN 0
                    ELSE IF t.type = "deposit" /\ t.status = "complete"
                    THEN t.amount
                    ELSE IF t.type = "buy" /\ t.status = "complete"
                    THEN 0 - t.amount
                    ELSE IF t.type = "withdraw"
                            /\ t.status \in {"pending", "complete"}
                    THEN 0 - t.amount
                    ELSE 0
         IN  Ledger(u, n - 1) + own

\* C22: after any sequence of Create, Approve and Deny requests that do not
\* overlap, with no update-balance, each user's balance is the initial
\* balance plus the complete deposits, less the complete buys, less the
\* pending and complete withdrawals of that user.
C22_LedgerConservation ==
    (\A h \in Slots : ~Busy(req[h])) =>
       \A u \in DOMAIN users :
         users[u].balance = pre.users[u].balance + Ledger(u, Len(txns))

-----------------------------------------------------------------------------
(* C23 *)

\* C23: when a Create, an Approve or a Deny is answered with an error
\* because its write of the transaction record failed, every balance is
\* what it was when the request arrived.
C23_AllOrNothing ==
    \A h \in Slots :
      /\ Answered(h, "create") \/ Answered(h, "approve") \/ Answered(h, "deny")
      /\ req[h].code = 500
      => users = pre.users

-----------------------------------------------------------------------------
(* C24 *)

====
